---------------------------- MODULE Spec2Model ----------------------------
(***************************************************************************)
(* YKey: the CTAP2 protocol engine (ykey-protocol, Fido2Client) and the    *)
(* device manager (ykey-device, DeviceManager), as state machines.         *)
(*                                                                         *)
(* SpecEngine  : one Fido2Client over one Device; a call is sent, then the *)
(*               device answers (the engine is &mut self, one call at a    *)
(*               time).                                                    *)
(* SpecManager : one DeviceManager shared by concurrent callers; a step of *)
(*               an operation runs from one await to the next.             *)
(***************************************************************************)
EXTENDS Integers, Sequences, FiniteSets, TLC

(***************************************************************************)
(* Bounds of the model.                                                    *)
(***************************************************************************)
\* longest PIN tried, in characters
MaxPinChars == 9
\* longest payload after the status byte of a device response
MaxPayloadLen == 1
\* concurrent callers of one DeviceManager
NumTasks == 2
\* discovery sources registered with add_discovery
MaxSources == 2
\* longest list one discovery source returns
MaxSeen == 2

(***************************************************************************)
(* Program constants.                                                      *)
(***************************************************************************)
\* set_pin / change_pin: pin.len() < 4 || pin.len() > 8
MinPinLen == 4
MaxPinLen == 8
\* Fido2Client::new: Duration::from_secs(30), in milliseconds here
DefaultTimeoutMs == 30000
\* verify_pin: self.pin_protocol_version = Some(1)
PinProtocolV1 == 1

Byte == 0..255

VARIABLES
    \* ---- Fido2Client<D> ----
    pin_token,              \* Option<Vec<u8>>: None or a byte sequence
    pin_protocol_version,   \* Option<u8>: None or a byte
    timeout,                \* Duration, in milliseconds
    inflight,               \* the call suspended at send_raw().await, if any
    last,                   \* the last call that returned: what the device
                            \* did and what the call returned
    \* ---- DeviceManager ----
    discoveries,            \* Vec<Box<dyn DeviceDiscovery>>: the sources, in order
    seen,                   \* what the sources return to a scan, where that is
                            \* held fixed; else they may return anything
    creators,               \* DeviceFactory::creators: device type -> creator
    connected_devices,      \* the HashMap<String, Box<dyn Device>> in the RwLock
    lock,                   \* the RwLock: writer, readers, FIFO of waiters
    dropped,                \* the device that the insert of the call that has
                            \* just returned put out of the table and dropped
                            \* without a call of disconnect()
    \* ---- the callers of the manager ----
    pc,                     \* where each caller is in its operation
    call,                   \* the operation and its device id
    local,                  \* the operation's local variables
    returned                \* the call that has just returned, and its value

engineVars == <<pin_token, pin_protocol_version, timeout, inflight, last>>

managerVars == <<discoveries, seen, creators, connected_devices, lock, dropped,
                 pc, call, local, returned>>

vars == <<engineVars, managerVars>>

\* Option<T>: None, and Some(x) as the one-element sequence of x
None == <<>>

Some(x) == <<x>>

(***************************************************************************)
(* Values.  Records of one shape each, so that any two can be compared.    *)
(***************************************************************************)
\* YKeyError (error.rs:13-97); code/seconds/text are 0/"" where the variant
\* has no such field.
YErr(kind, code, text, seconds) ==
    [kind |-> kind, code |-> code, text |-> text, seconds |-> seconds]

NoErr == YErr("NoError", 0, "", 0)

\* YKeyError::communication
communication(message) == YErr("CommunicationError", 0, message, 0)

\* YKeyError::timeout
timeout_error(seconds) == YErr("Timeout", 0, "", seconds)

\* YKeyError::is_device_locked
is_device_locked(e) ==
    e.kind = "DeviceLocked" \/ (e.kind = "CtapError" /\ e.code = 38)

\* A plausible slip: only the PinRequired variant, not the CTAP status.
is_pin_required_variant_only(e) == e.kind = "PinRequired"

\* YKeyError::is_pin_required
is_pin_required(e) ==
    e.kind = "PinRequired" \/ (e.kind = "CtapError" /\ e.code = 42)

\* YKeyError::is_user_verification_required
is_user_verification_required(e) ==
    e.kind = "UserVerificationRequired" \/ (e.kind = "CtapError" /\ e.code = 47)

\* A plausible slip: the arm of Processing (0x16) left out.
is_retryable_without_processing(e) ==
    \/ e.kind \in {"DeviceBusy", "Timeout", "CommunicationError"}
    \/ e.kind = "CtapError" /\ e.code = 6

\* YKeyError::is_retryable
is_retryable(e) ==
    \/ e.kind \in {"DeviceBusy", "Timeout", "CommunicationError"}
    \/ e.kind = "CtapError" /\ e.code \in {6, 22}

UnexpectedResponse == YErr("UnexpectedResponse", 0, "", 0)

InvalidParameters(text) == YErr("InvalidParameters", 0, text, 0)

\* The fixed message table of YKeyError::ctap_error.
CtapMessageTable ==
    (1 :> "Invalid command") @@ (2 :> "Invalid parameter") @@
    (3 :> "Invalid length") @@ (4 :> "Invalid sequence") @@
    (5 :> "Message timeout") @@ (6 :> "Channel busy") @@
    (10 :> "Lock required") @@ (11 :> "Invalid channel") @@
    (16 :> "CBOR unexpected type") @@ (17 :> "Invalid CBOR") @@
    (18 :> "Missing parameter") @@ (19 :> "Limit exceeded") @@
    (20 :> "Unsupported extension") @@ (21 :> "Credential excluded") @@
    (22 :> "Processing") @@ (23 :> "Invalid credential") @@
    (24 :> "User action pending") @@ (25 :> "Operation pending") @@
    (26 :> "No operations") @@ (27 :> "Unsupported algorithm") @@
    (28 :> "Operation denied") @@ (29 :> "Key store full") @@
    (30 :> "No operation pending") @@ (31 :> "Unsupported option") @@
    (32 :> "Invalid option") @@ (33 :> "Keep alive cancel") @@
    (34 :> "No credentials") @@ (35 :> "User action timeout") @@
    (36 :> "Not allowed") @@ (37 :> "PIN invalid") @@
    (38 :> "PIN blocked") @@ (39 :> "PIN auth invalid") @@
    (40 :> "PIN auth blocked") @@ (41 :> "PIN not set") @@
    (42 :> "PIN required") @@ (43 :> "PIN policy violation") @@
    (44 :> "PIN token expired") @@ (45 :> "Request too large") @@
    (46 :> "Action timeout") @@ (47 :> "Up required") @@
    (48 :> "UV blocked") @@ (49 :> "Integrity failure") @@
    (50 :> "Invalid subcommand") @@ (51 :> "UV invalid") @@
    (52 :> "Unauthorized permission")

\* A plausible slip: codes outside the table collapse to one generic code.
ctap_error_losing_unknown(code) ==
    IF code \in DOMAIN CtapMessageTable
    THEN YErr("CtapError", code, CtapMessageTable[code], 0)
    ELSE YErr("CtapError", 127, "Unknown error code", 0)

\* YKeyError::ctap_error: the code is kept whatever the message is.
ctap_error(code) ==
    YErr("CtapError", code,
         IF code \in DOMAIN CtapMessageTable
         THEN CtapMessageTable[code]
         ELSE "Unknown error code",
         0)

(***************************************************************************)
(* PIN strings.  A PIN is known by its number of characters and by whether *)
(* one of them is a two-byte character: str::len() counts bytes, a person  *)
(* counts characters.                                                      *)
(***************************************************************************)
Pins ==
    { [chars |-> n, wide |-> w] :
        n \in 0..MaxPinChars, w \in BOOLEAN } \ { [chars |-> 0, wide |-> TRUE] }

\* str::len(): the length in bytes of the UTF-8 encoding
StrLen(pin) == pin.chars + (IF pin.wide THEN 1 ELSE 0)

\* the number of characters
CharCount(pin) == pin.chars

NoPin == [chars |-> 0, wide |-> FALSE]

(***************************************************************************)
(* Commands and responses.                                                 *)
(***************************************************************************)
\* CtapCommand::encode
Encode(command) ==
    CASE command = "GetInfo"          -> <<4>>
      [] command = "MakeCredential"   -> <<1>>
      [] command = "GetAssertion"     -> <<2>>
      [] command = "Reset"            -> <<7>>
      [] command = "ClientPin"        -> <<6>>
      [] command = "GetNextAssertion" -> <<8>>
      [] command = "Cancel"           -> <<63, 0, 0, 0>>

\* CtapResponse: kind, the error code of Error(u8), the token of
\* ClientPinToken(Vec<u8>).
Response(kind, code, token) == [kind |-> kind, code |-> code, token |-> token]

NoResponse == Response("NoResponse", 0, <<>>)

\* Result<T, YKeyError>
Ok(val) == [ok |-> TRUE, val |-> val, err |-> NoErr]
Err(e) == [ok |-> FALSE, val |-> NoResponse, err |-> e]

\* CtapResponse::decode: the status byte and the length decide alone; the
\* command that was sent is not an input.
Decode(data) ==
    IF data = <<>>
    THEN Err(communication("Empty response"))
    ELSE IF data[1] = 0
         THEN IF Len(data) = 1
              THEN Ok(Response("Reset", 0, <<>>))
              ELSE Ok(Response("GetInfo", 0, <<>>))
         ELSE Ok(Response("Error", data[1], <<>>))

(***************************************************************************)
(* The Device under the engine: what one send_raw does.                    *)
(***************************************************************************)
PayloadByte == 170

RECURSIVE Repeat(_, _)
Repeat(x, n) == IF n = 0 THEN <<>> ELSE <<x>> \o Repeat(x, n - 1)

Payloads == { Repeat(PayloadByte, n) : n \in 0..MaxPayloadLen }

\* errors a Device's send_raw may return
TransportErrors ==
    { YErr("DeviceBusy", 0, "in use", 0),
      YErr("PermissionDenied", 0, "hidraw", 0),
      communication("Device not connected") }

Outcome(kind, data, err) == [kind |-> kind, data |-> data, err |-> err]

NotSent == Outcome("not_sent", <<>>, NoErr)

\* send_raw returns bytes (possibly none), returns an error, or does not
\* return before the timeout
DeviceOutcomes ==
    { Outcome("reply", <<s>> \o p, NoErr) : s \in Byte, p \in Payloads }
        \cup { Outcome("reply", <<>>, NoErr) }
        \cup { Outcome("fail", <<>>, e) : e \in TransportErrors }
        \cup { Outcome("hang", <<>>, NoErr) }

\* Duration::as_secs
AsSecs(ms) == ms \div 1000

\* Fido2Client::send_ctap_command, after send_raw: the timeout, the
\* transport error (wrapped in a CommunicationError), or the decoded bytes.
SendCtapCommand(outcome, tmo) ==
    CASE outcome.kind = "hang" -> Err(timeout_error(AsSecs(tmo)))
      [] outcome.kind = "fail" ->
            Err(YErr("CommunicationError", 0, outcome.err.kind, 0))
      [] outcome.kind = "reply" -> Decode(outcome.data)

\* The match that ends every high-level call: the variant the call wants,
\* Error(code), or anything else.
MatchResponse(sent, want) ==
    IF ~sent.ok THEN sent
    ELSE IF sent.val.kind = want THEN Ok(sent.val)
    ELSE IF sent.val.kind = "Error" THEN Err(ctap_error(sent.val.code))
    ELSE Err(UnexpectedResponse)

\* the CtapResponse variant each call's match accepts
Wanted(op) ==
    CASE op = "get_info"           -> "GetInfo"
      [] op = "make_credential"    -> "MakeCredential"
      [] op = "get_assertion"      -> "GetAssertion"
      [] op = "get_next_assertion" -> "GetAssertion"
      [] op = "reset"              -> "Reset"
      [] op = "set_pin"            -> "ClientPin"
      [] op = "change_pin"         -> "ClientPin"
      [] op = "verify_pin"         -> "ClientPinToken"
      [] op = "cancel"             -> "Cancel"

\* the calls whose success clears the PIN state (reset, change_pin)
ClearsOnSuccess(op) == op \in {"reset", "change_pin"}

\* A plausible slip: clear_pin_token() is called before the match.
ClearsWhateverResult(op, r) == ClearsOnSuccess(op)

\* A plausible slip: a call that fails drops the token as well.
ClearsOnError(op, r) == ~r.ok \/ ClearsOnSuccess(op)

\* self.clear_pin_token() sits in the success arm of the match only
Clears(op, r) == r.ok /\ ClearsOnSuccess(op)

\* A plausible slip: clear_pin_token resets the token and forgets the
\* version.
VersionKept(version) == version

\* clear_pin_token: self.pin_protocol_version = None
VersionCleared(version) == None

\* verify_pin's arm for ClientPinToken(token)
Stores(op, r) == r.ok /\ op = "verify_pin"

\* a call suspended at send_raw().await
Pending(op, old_pin, pin, sent) ==
    [op |-> op, old_pin |-> old_pin, pin |-> pin, sent |-> sent]

Idle == Pending("idle", NoPin, NoPin, <<>>)

\* the record of a returned call; the PINs are kept for a call that
\* returned without sending
Returned(op, old_pin, pin, sent, outcome, result, pre_token, pre_version) ==
    [op |-> op, old_pin |-> old_pin, pin |-> pin, sent |-> sent,
     outcome |-> outcome, result |-> result,
     pre_token |-> pre_token, pre_version |-> pre_version]

(***************************************************************************)
(* Fido2Client: construction and operations.                               *)
(***************************************************************************)
\* the value of `last` before any call
Constructed ==
    Returned("new", NoPin, NoPin, <<>>, NotSent, Ok(NoResponse), None, None)

\* nothing has returned yet from the call in flight
NothingReturned ==
    Returned("none", NoPin, NoPin, <<>>, NotSent, Ok(NoResponse), None, None)

\* up to send_raw().await: the command is encoded and handed to the Device
Send(op, command, old_pin, pin) ==
    /\ inflight = Idle
    /\ inflight' = Pending(op, old_pin, pin, <<Encode(command)>>)
    /\ last' = NothingReturned
    /\ UNCHANGED <<pin_token, pin_protocol_version, timeout, managerVars>>

\* a call that returns before any send_raw
Reject(op, old_pin, pin, e) ==
    /\ inflight = Idle
    /\ last' = Returned(op, old_pin, pin, <<>>, NotSent, Err(e),
                        pin_token, pin_protocol_version)
    /\ UNCHANGED <<pin_token, pin_protocol_version, timeout, inflight, managerVars>>

get_info == Send("get_info", "GetInfo", NoPin, NoPin)

make_credential == Send("make_credential", "MakeCredential", NoPin, NoPin)

get_assertion == Send("get_assertion", "GetAssertion", NoPin, NoPin)

get_next_assertion == Send("get_next_assertion", "GetNextAssertion", NoPin, NoPin)

cancel == Send("cancel", "Cancel", NoPin, NoPin)

reset == Send("reset", "Reset", NoPin, NoPin)

\* the length test of set_pin and change_pin, on the byte length
PinLenOk(pin) == ~(StrLen(pin) < MinPinLen \/ StrLen(pin) > MaxPinLen)

\* Fido2Client::set_pin
set_pin ==
    \E pin \in Pins :
        IF ~PinLenOk(pin)
        THEN Reject("set_pin", NoPin, pin,
                    InvalidParameters("PIN must be 4-8 characters"))
        ELSE Send("set_pin", "ClientPin", NoPin, pin)

\* Fido2Client::change_pin: only new_pin is length-checked
change_pin ==
    \E old_pin \in Pins, new_pin \in Pins :
        IF ~PinLenOk(new_pin)
        THEN Reject("change_pin", old_pin, new_pin,
                    InvalidParameters("PIN must be 4-8 characters"))
        ELSE Send("change_pin", "ClientPin", old_pin, new_pin)

\* Fido2Client::verify_pin: no length test, the request always goes out
verify_pin ==
    \E pin \in Pins : Send("verify_pin", "ClientPin", NoPin, pin)

\* A plausible slip: a call whose error is_retryable is sent a second time.
AttemptsWithRetry(sent, r) ==
    IF ~r.ok /\ is_retryable(r.err) THEN sent \o sent ELSE sent

\* the send_raw calls of a call that returns r: send_ctap_command calls
\* send_raw once and returns whatever comes of it
Attempts(sent, r) == sent

\* From send_raw().await to the return of the suspended call: the response
\* is decoded and matched, and the PIN state follows the call's arm.
Respond ==
    /\ inflight # Idle
    /\ \E outcome \in DeviceOutcomes :
        LET r == MatchResponse(SendCtapCommand(outcome, timeout),
                               Wanted(inflight.op))
        IN /\ last' = Returned(inflight.op, NoPin, NoPin,
                               Attempts(inflight.sent, r),
                               outcome, r, pin_token, pin_protocol_version)
           /\ pin_token' =
                  IF Clears(inflight.op, r) THEN None
                  ELSE IF Stores(inflight.op, r) THEN Some(r.val.token)
                  ELSE pin_token
           /\ pin_protocol_version' =
                  IF Clears(inflight.op, r)
                  THEN VersionCleared(pin_protocol_version)
                  ELSE IF Stores(inflight.op, r) THEN Some(PinProtocolV1)
                  ELSE pin_protocol_version
    /\ inflight' = Idle
    /\ UNCHANGED <<timeout, managerVars>>

\* Fido2Client::clear_pin_token
clear_pin_token ==
    /\ inflight = Idle
    /\ pin_token' = None
    /\ pin_protocol_version' = VersionCleared(pin_protocol_version)
    /\ last' = Returned("clear_pin_token", NoPin, NoPin, <<>>, NotSent,
                        Ok(NoResponse), pin_token, pin_protocol_version)
    /\ UNCHANGED <<timeout, inflight, managerVars>>

\* the token the module's own test stores
TestToken == <<1, 2, 3, 4>>

\* test_pin_token_management: code of the module writes the two private
\* fields directly (client.pin_token = Some(vec![1, 2, 3, 4]);
\* client.pin_protocol_version = Some(1))
store_pin_token ==
    /\ inflight = Idle
    /\ pin_token' = Some(TestToken)
    /\ pin_protocol_version' = Some(PinProtocolV1)
    /\ last' = Returned("store_pin_token", NoPin, NoPin, <<>>, NotSent,
                        Ok(NoResponse), pin_token, pin_protocol_version)
    /\ UNCHANGED <<timeout, inflight, managerVars>>

Timeouts == {10, DefaultTimeoutMs}

\* Fido2Client::set_timeout
set_timeout ==
    \E t \in Timeouts :
        /\ inflight = Idle
        /\ timeout' = t
        /\ last' = Returned("set_timeout", NoPin, NoPin, <<>>, NotSent,
                            Ok(NoResponse), pin_token, pin_protocol_version)
        /\ UNCHANGED <<pin_token, pin_protocol_version, inflight, managerVars>>

NextEngine ==
    \/ get_info
    \/ make_credential
    \/ get_assertion
    \/ get_next_assertion
    \/ cancel
    \/ reset
    \/ set_pin
    \/ change_pin
    \/ verify_pin
    \/ Respond
    \/ clear_pin_token
    \/ store_pin_token
    \/ set_timeout

(***************************************************************************)
(* Device manager: values.                                                 *)
(***************************************************************************)
Tasks == 1..NumTasks

DeviceIds == {"a", "b"}

NoId == ""

\* the order of String::cmp on the ids of the model
IdRank(id) == IF id = "a" THEN 1 ELSE 2

\* DeviceInfo: the id, the device type, and a name standing for every other
\* field (two entries of one id may differ in it)
DeviceInfo(id, device_type, name) ==
    [id |-> id, device_type |-> device_type, name |-> name]

NoInfo == DeviceInfo(NoId, "Generic", 0)

DeviceTypeOf(id) == IF id = "a" THEN "YubiKey" ELSE "Nitrokey"

\* the entry source i reports for a device
Seen(i, id) == DeviceInfo(id, DeviceTypeOf(id), i)

\* The values of the manager's operations are records of one field, named
\* after what the value is, so that any two of them can be compared.
\* an Err carries no value
NoValue == [none |-> TRUE]

\* Result<T, YKeyError> of the manager's operations
MOk(val) == [ok |-> TRUE, val |-> val, err |-> NoErr]
MErr(e) == [ok |-> FALSE, val |-> NoValue, err |-> e]

Unit == [unit |-> "()"]

DeviceNotFound(id) == YErr("DeviceNotFound", 0, id, 0)

UnsupportedDevice(device_type) == YErr("UnsupportedDevice", 0, device_type, 0)

(***************************************************************************)
(* Discovery and scan_devices.                                             *)
(***************************************************************************)
\* the error the scan() of source i fails with
ScanFailure(i) == communication("scan failed: source " \o ToString(i))

\* DeviceDiscovery::scan of source i: an error, or the devices it sees
SourceOutcomes(i) ==
    { [ok |-> FALSE, list |-> <<>>, err |-> ScanFailure(i)] }
        \cup { [ok |-> TRUE, list |-> l, err |-> NoErr] :
                 l \in UNION { [1..n -> { Seen(i, id) : id \in DeviceIds }] :
                                 n \in 0..MaxSeen } }

\* one scan() outcome per registered source
ScanOutcomes(n) ==
    { outs \in [1..n -> UNION { SourceOutcomes(i) : i \in 1..n }] :
        \A i \in 1..n : outs[i] \in SourceOutcomes(i) }

\* the sources answer each scan as they please
NoSeen == [fixed |-> FALSE, outs |-> <<>>]

\* every scan gets the answers outs
Fixed(outs) == [fixed |-> TRUE, outs |-> outs]

\* the `?` on a scan() that failed: the list so far is given up
Gave(e) == [ok |-> FALSE, val |-> <<>>, err |-> e]

\* A plausible slip: a source whose scan() fails is passed over and the
\* others are still listed.
RECURSIVE GatherPassingOver(_, _)
GatherPassingOver(outs, all_devices) ==
    IF outs = <<>> THEN MOk(all_devices)
    ELSE IF ~Head(outs).ok THEN GatherPassingOver(Tail(outs), all_devices)
    ELSE GatherPassingOver(Tail(outs), all_devices \o Head(outs).list)

\* the for loop of scan_devices: the first failing scan() ends it
RECURSIVE Gather(_, _)
Gather(outs, all_devices) ==
    IF outs = <<>> THEN MOk(all_devices)
    ELSE IF ~Head(outs).ok THEN Gave(Head(outs).err)
    ELSE Gather(Tail(outs), all_devices \o Head(outs).list)

\* sort_by(|a, b| a.id.cmp(&b.id)): a stable sort
RECURSIVE InsertById(_, _)
InsertById(x, sorted) ==
    IF sorted = <<>> THEN <<x>>
    ELSE IF IdRank(x.id) < IdRank(Head(sorted).id) THEN <<x>> \o sorted
    ELSE <<Head(sorted)>> \o InsertById(x, Tail(sorted))

\* A plausible slip: dedup_by without the sort before it.
SortByIdMissing(l) == l

RECURSIVE SortById(_)
SortById(l) ==
    IF l = <<>> THEN <<>>
    ELSE InsertById(l[Len(l)], SortById(SubSeq(l, 1, Len(l) - 1)))

\* A plausible slip: the sort without the dedup_by after it.
DedupByIdMissing(l) == l

\* dedup_by(|a, b| a.id == b.id): of adjacent entries of one id the first stays
RECURSIVE DedupById(_)
DedupById(l) ==
    IF Len(l) <= 1 THEN l
    ELSE IF l[2].id = l[1].id THEN DedupById(<<l[1]>> \o SubSeq(l, 3, Len(l)))
    ELSE <<l[1]>> \o DedupById(Tail(l))

\* DeviceManager::scan_devices
ScanDevices(outs) ==
    LET gathered == Gather(outs, <<>>)
    IN IF ~gathered.ok THEN gathered
       ELSE MOk(DedupById(SortById(gathered.val)))

\* A plausible slip: the first device of the scan is taken, whatever its id.
FindAny(l, id) == IF l = <<>> THEN NoInfo ELSE Head(l)

\* devices.iter().find(|d| d.id == device_id)
RECURSIVE Find(_, _)
Find(l, id) ==
    IF l = <<>> THEN NoInfo
    ELSE IF Head(l).id = id THEN Head(l)
    ELSE Find(Tail(l), id)

(***************************************************************************)
(* Device factory.                                                         *)
(***************************************************************************)
\* DeviceFactory::new: the three built-in creators
DefaultCreators ==
    [ty \in {"YubiKey", "CanoKey", "Generic"} |->
        CASE ty = "YubiKey" -> "YubiKeyCreator"
          [] ty = "CanoKey" -> "CanoKeyCreator"
          [] ty = "Generic" -> "GenericFidoCreator"]

\* a creator registered by the application; its create() may fail
CustomCreator == "CustomCreator"

\* no creator is registered for the type, nor for Generic
NoCreator == "NoCreator"

\* A plausible slip: no fallback to the creator of Generic.
CreatorForNoFallback(registry, info) ==
    IF info.device_type \in DOMAIN registry THEN registry[info.device_type]
    ELSE NoCreator

\* DeviceFactory::create_device: the creator of the type, else Generic's
CreatorFor(registry, info) ==
    IF info.device_type \in DOMAIN registry THEN registry[info.device_type]
    ELSE IF "Generic" \in DOMAIN registry THEN registry["Generic"]
    ELSE NoCreator

\* DeviceCreator::supports: the YubiKey and CanoKey creators support their
\* own device type, the Generic creator every device; the application's
\* creator is one that supports every device
Supports(creator, info) ==
    CASE creator = "YubiKeyCreator" -> info.device_type = "YubiKey"
      [] creator = "CanoKeyCreator" -> info.device_type = "CanoKey"
      [] OTHER -> TRUE

\* DeviceCreator::priority: 0 unless overridden; no built-in creator
\* overrides it, the application's creator is one that does
Priority(creator) == IF creator = CustomCreator THEN 1 ELSE 0

\* DeviceCreator::create: the built-in creators always succeed
CreateOutcomes(creator) ==
    IF creator = CustomCreator THEN {TRUE, FALSE} ELSE {TRUE}

(***************************************************************************)
(* The connection table: a HashMap, kept as the list of its entries in the *)
(* order of their ids.                                                     *)
(***************************************************************************)
\* Device: the id it was created for and its connection state
Device(id, state) == [id |-> id, state |-> state]

NoDevice == Device(NoId, "none")

Entry(id, dev) == [id |-> id, dev |-> dev]

\* HashMap::new
EmptyMap == <<>>

\* HashMap::contains_key
MapHas(table, id) == \E i \in 1..Len(table) : table[i].id = id

\* HashMap::get_mut / the value HashMap::remove returns
MapGet(table, id) == table[CHOOSE i \in 1..Len(table) : table[i].id = id].dev

\* HashMap::remove
RECURSIVE MapRemove(_, _)
MapRemove(table, id) ==
    IF table = <<>> THEN <<>>
    ELSE IF Head(table).id = id THEN MapRemove(Tail(table), id)
    ELSE <<Head(table)>> \o MapRemove(Tail(table), id)

\* the entry put at its place in the order of the ids
RECURSIVE Place(_, _)
Place(table, e) ==
    IF table = <<>> THEN <<e>>
    ELSE IF IdRank(e.id) <= IdRank(Head(table).id) THEN <<e>> \o table
    ELSE <<Head(table)>> \o Place(Tail(table), e)

\* A plausible slip: a list push instead of a map insert.
MapInsertKeepingOld(table, id, dev) == Place(table, Entry(id, dev))

\* HashMap::insert: the entry of the key is replaced
MapInsert(table, id, dev) == Place(MapRemove(table, id), Entry(id, dev))

\* HashMap::len
DeviceCount(table) == Len(table)

\* HashMap::keys
ConnectedDeviceIds(table) == { table[i].id : i \in 1..Len(table) }

(***************************************************************************)
(* The RwLock (tokio::sync::RwLock: waiters are served first come, first   *)
(* served).                                                                *)
(***************************************************************************)
\* writer: the caller holding the write guard, if one does
FreeLock == [writer |-> {}, readers |-> {}, queue |-> <<>>]

\* A plausible slip: the table kept in a lock that lets readers in while a
\* writer holds it.
CompatibleReadAnytime(l, mode) ==
    IF mode = "write" THEN l.writer = {} /\ l.readers = {}
    ELSE TRUE

\* write() needs the lock free, read() needs it free of a writer
Compatible(l, mode) ==
    IF mode = "write" THEN l.writer = {} /\ l.readers = {}
    ELSE l.writer = {}

Grant(l, t, mode) ==
    IF mode = "write" THEN [l EXCEPT !.writer = {t}]
    ELSE [l EXCEPT !.readers = @ \cup {t}]

\* A plausible slip: the write guard outlives the call (kept in a field, or
\* forgotten with mem::forget), so only read guards are given back.
ReleaseReadOnly(l, t) == [l EXCEPT !.readers = @ \ {t}]

\* the guard is dropped
Release(l, t) ==
    [l EXCEPT !.writer = @ \ {t}, !.readers = @ \ {t}]

(***************************************************************************)
(* The operations of the manager, by caller.  Code between two awaits that *)
(* touches only the caller's own values, or runs under the guard it has    *)
(* just been granted, is one step.                                         *)
(***************************************************************************)
ReadOps == {"is_device_connected", "device_count", "connected_device_ids"}

WriteOps == {"connect_device", "disconnect_device", "disconnect_all", "with_device"}

Ops == ReadOps \cup WriteOps \cup {"scan_devices"}

\* the operations that take a device id
IdOps == {"connect_device", "disconnect_device", "with_device", "is_device_connected"}

\* A plausible slip: every operation takes read().
ModeAlwaysRead(op) == "read"

\* self.connected_devices.read() or .write()
Mode(op) == IF op \in ReadOps THEN "read" ELSE "write"

NoCall == [op |-> "none", id |-> NoId]

\* what the closure passed to with_device may return
OpResults == { MOk([value |-> "op"]), MErr(communication("op failed")) }

\* the parameter f of with_device: a closure whose future yields r
OpReturning(r) == <<r>>

\* no closure: every operation but with_device
NoOp == <<>>

\* the closure of TauriDeviceManager::send_raw_command on a device that never
\* answers: `device.send_raw(&command).await?` stays pending, so the future
\* yields nothing
OpNeverYields == <<>>

\* dev: the device of the operation; ids: the ids disconnect_all has still
\* to handle; printed: the ids disconnect_all has printed a failure for;
\* f: the closure of with_device
NoLocal == [dev |-> NoDevice, ids |-> <<>>, printed |-> <<>>, f |-> NoOp]

\* a call that has returned and whose value the caller is about to take:
\* who called what, and the value returned
Completion(t, op, id, r) == [task |-> t, op |-> op, id |-> id, result |-> r]

NoCompletion == Completion(0, "none", NoId, MOk(Unit))

\* Fido2Client::new and DeviceManager::new
Init ==
    /\ pin_token = None
    /\ pin_protocol_version = None
    /\ timeout = DefaultTimeoutMs
    /\ inflight = Idle
    /\ last = Constructed
    /\ discoveries = 0
    /\ seen = NoSeen
    /\ creators = DefaultCreators
    /\ connected_devices = EmptyMap
    /\ lock = FreeLock
    /\ dropped = {}
    /\ pc = [t \in Tasks |-> "setup"]
    /\ call = [t \in Tasks |-> NoCall]
    /\ local = [t \in Tasks |-> NoLocal]
    /\ returned = NoCompletion

\* the operation op(id) of caller t returns r
Finish(t, op, id, r) ==
    /\ pc' = [pc EXCEPT ![t] = "idle"]
    /\ call' = [call EXCEPT ![t] = NoCall]
    /\ local' = [local EXCEPT ![t] = NoLocal]
    /\ returned' = Completion(t, op, id, r)

\* the operation op(id) of caller t goes on to (or stays at) the await at
\* `at`, holding the values in `loc`
Await(t, op, id, at, loc) ==
    /\ pc' = [pc EXCEPT ![t] = at]
    /\ call' = [call EXCEPT ![t] = [op |-> op, id |-> id]]
    /\ local' = [local EXCEPT ![t] = loc]
    /\ UNCHANGED returned

\* caller t is at p, and no returned value is waiting to be taken
At(t, p) == returned.op = "none" /\ pc[t] = p

\* The caller takes the value its call returned.  Nothing else of the model
\* runs between a return and this step: taking the value touches nothing the
\* other callers see.
Return ==
    /\ returned.op # "none"
    /\ returned' = NoCompletion
    /\ dropped' = {}
    /\ UNCHANGED <<discoveries, creators, connected_devices, lock, pc, call,
                   local, seen, engineVars>>

\* the manager is still owned by the code that builds it (&mut self)
InSetup == \A t \in Tasks : pc[t] = "setup"

\* DeviceManager::add_discovery
add_discovery ==
    /\ InSetup
    /\ discoveries < MaxSources
    /\ discoveries' = discoveries + 1
    /\ UNCHANGED <<creators, connected_devices, lock, dropped, pc, call, local,
                   returned, seen, engineVars>>

\* DeviceFactory::register, before DeviceManager::with_factory: the
\* application's creator takes the place of the built-in YubiKey creator
register ==
    /\ InSetup
    /\ creators = DefaultCreators
    /\ creators' = [creators EXCEPT !["YubiKey"] = CustomCreator]
    /\ UNCHANGED <<discoveries, connected_devices, lock, dropped, pc, call,
                   local, returned, seen, engineVars>>

\* the manager is handed to its callers (&self from here on)
Share ==
    /\ InSetup
    /\ pc' = [t \in Tasks |-> "idle"]
    /\ UNCHANGED <<discoveries, creators, connected_devices, lock, dropped,
                   call, local, returned, seen, engineVars>>

\* creator.create(device_info)
NewDevice(id) == Device(id, "created")

\* what connected.insert(device_id, device) returns and the statement drops
Replaced(table, id) ==
    IF MapHas(table, id) THEN {MapGet(table, id)} ELSE {}

\* the orders in which HashMap::keys may list the ids
Orders(ids) ==
    { order \in [1..Cardinality(ids) -> ids] :
        \A i, j \in 1..Cardinality(ids) : i # j => order[i] # order[j] }

\* what a status query reads under its read guard
StatusValue(op, id) ==
    CASE op = "is_device_connected" ->
           [connected |-> MapHas(connected_devices, id)]
      [] op = "device_count" ->
           [count |-> DeviceCount(connected_devices)]
      [] op = "connected_device_ids" ->
           [ids |-> ConnectedDeviceIds(connected_devices)]

\* A plausible slip: an id that is not connected is an error, as it is in
\* with_device.
NothingRemovedIsError(id) == MErr(DeviceNotFound(id))

\* disconnect_device: connected.remove(device_id) gave None, the `if let`
\* is skipped and Ok(()) follows
NothingRemoved(id) == MOk(Unit)

\* Caller t has been granted its guard (the lock is lk now) and runs op(id)
\* up to its next await or to its return.
\* A plausible slip: get_mut() first, the entry taken out only once
\* disconnect() has succeeded.
LeftUntilDisconnected(table, id) == table

\* disconnect_device: connected.remove(device_id) comes before
\* device.disconnect()
RemovedFirst(table, id) == MapRemove(table, id)

Enter(t, op, id, lk, loc) ==
    CASE op = "connect_device" ->
           \* connected.insert(device_id, device); Ok(())
           /\ connected_devices' = MapInsert(connected_devices, id, loc.dev)
           /\ dropped' = Replaced(connected_devices, id)
           /\ lock' = Release(lk, t)
           /\ Finish(t, op, id, MOk(Unit))
      [] op = "disconnect_device" ->
           \* if let Some(mut device) = connected.remove(device_id)
           IF MapHas(connected_devices, id)
           THEN /\ connected_devices' = RemovedFirst(connected_devices, id)
                /\ lock' = lk
                /\ Await(t, op, id, "d_disconnect",
                         [loc EXCEPT !.dev = MapGet(connected_devices, id)])
                /\ UNCHANGED dropped
           ELSE /\ lock' = Release(lk, t)
                /\ Finish(t, op, id, NothingRemoved(id))
                /\ UNCHANGED <<connected_devices, dropped>>
      [] op = "disconnect_all" ->
           \* connected.keys().cloned().collect()
           IF connected_devices = EmptyMap
           THEN /\ lock' = Release(lk, t)
                /\ Finish(t, op, id, MOk(Unit))
                /\ UNCHANGED <<connected_devices, dropped>>
           ELSE /\ lock' = lk
                /\ \E device_ids \in Orders(ConnectedDeviceIds(connected_devices)) :
                     \* the first turn of the loop, up to device.disconnect()
                     /\ connected_devices'
                          = MapRemove(connected_devices, Head(device_ids))
                     /\ Await(t, op, id, "a_loop",
                              [loc EXCEPT
                                 !.dev = MapGet(connected_devices, Head(device_ids)),
                                 !.ids = Tail(device_ids)])
                /\ UNCHANGED dropped
      [] op = "with_device" ->
           \* connected.get_mut(device_id).ok_or_else(..)?
           IF MapHas(connected_devices, id)
           THEN /\ lock' = lk
                /\ Await(t, op, id, "w_op",
                         [loc EXCEPT !.dev = MapGet(connected_devices, id)])
                /\ UNCHANGED <<connected_devices, dropped>>
           ELSE /\ lock' = Release(lk, t)
                /\ Finish(t, op, id, MErr(DeviceNotFound(id)))
                /\ UNCHANGED <<connected_devices, dropped>>
      [] OTHER ->
           \* the three status queries
           /\ lock' = Release(lk, t)
           /\ Finish(t, op, id, MOk(StatusValue(op, id)))
           /\ UNCHANGED <<connected_devices, dropped>>

\* self.connected_devices.read().await / .write().await: taken at once when
\* the lock is compatible and nobody waits, else the caller queues
Request(t, op, id, loc) ==
    IF lock.queue = <<>> /\ Compatible(lock, Mode(op))
    THEN Enter(t, op, id, Grant(lock, t, Mode(op)), loc)
    ELSE /\ lock' = [lock EXCEPT !.queue = Append(@, t)]
         /\ Await(t, op, id, "wait", loc)
         /\ UNCHANGED <<connected_devices, dropped>>

\* the first waiter gets the lock once it is compatible
Wake(t) ==
    /\ At(t, "wait")
    /\ lock.queue # <<>>
    /\ Head(lock.queue) = t
    /\ Compatible(lock, Mode(call[t].op))
    /\ Enter(t, call[t].op, call[t].id,
             Grant([lock EXCEPT !.queue = Tail(@)], t, Mode(call[t].op)),
             local[t])
    /\ UNCHANGED <<discoveries, creators, seen, engineVars>>

\* what scan_devices may return with n sources registered
ScanResults ==
    [n \in 0..MaxSources |-> { ScanDevices(outs) : outs \in ScanOutcomes(n) }]

\* what this scan_devices may return
Scans ==
    IF seen.fixed THEN {ScanDevices(seen.outs)} ELSE ScanResults[discoveries]

\* the value scan_devices hands to its caller
ScanValue(scanned) ==
    IF scanned.ok THEN MOk([devices |-> scanned.val]) ELSE MErr(scanned.err)

\* DeviceManager::scan_devices as an operation of its own; it takes no lock
scan_devices(t) ==
    /\ At(t, "idle")
    /\ \E scanned \in Scans :
         Finish(t, "scan_devices", NoId, ScanValue(scanned))
    /\ UNCHANGED <<discoveries, creators, connected_devices, lock, dropped,
                   seen, engineVars>>

\* connect_device up to device.connect(): self.scan_devices().await?, the
\* find(..).ok_or_else(..)? and self.factory.create_device(device_info)?
connect_device(t) ==
    /\ At(t, "idle")
    /\ \E device_id \in DeviceIds, scanned \in Scans :
        LET op == "connect_device"
            device_info == IF scanned.ok THEN Find(scanned.val, device_id)
                           ELSE NoInfo
            creator == CreatorFor(creators, device_info)
        IN IF ~scanned.ok
           THEN Finish(t, op, device_id, ScanValue(scanned))
           ELSE IF device_info = NoInfo
           THEN Finish(t, op, device_id, MErr(DeviceNotFound(device_id)))
           ELSE IF creator = NoCreator
           THEN Finish(t, op, device_id,
                       MErr(UnsupportedDevice(device_info.device_type)))
           ELSE \E created \in CreateOutcomes(creator) :
                  IF created
                  THEN Await(t, op, device_id, "c_connect",
                             [local[t] EXCEPT !.dev = NewDevice(device_info.id)])
                  ELSE Finish(t, op, device_id,
                              MErr(communication("create failed")))
    /\ UNCHANGED <<discoveries, creators, connected_devices, lock, dropped,
                   seen, engineVars>>

\* A plausible slip: the result of connect() is not looked at.
AfterConnectIgnoringError(connected) == "c_lock"

\* connect_device: the `?` after device.connect().await
AfterConnect(connected) == IF connected THEN "c_lock" ELSE "idle"

\* connect_device: device.connect().await?
connect_device_connect(t) ==
    /\ At(t, "c_connect")
    /\ \E connected \in BOOLEAN :
         IF AfterConnect(connected) = "idle"
         THEN Finish(t, call[t].op, call[t].id,
                     MErr(communication("connect failed")))
         ELSE Await(t, call[t].op, call[t].id, AfterConnect(connected),
                    IF connected
                    THEN [local[t] EXCEPT !.dev.state = "connected"]
                    ELSE local[t])
    /\ UNCHANGED <<discoveries, creators, connected_devices, lock, dropped,
                   seen, engineVars>>

\* connect_device: self.connected_devices.write().await and the insert
connect_device_insert(t) ==
    /\ At(t, "c_lock")
    /\ Request(t, call[t].op, call[t].id, local[t])
    /\ UNCHANGED <<discoveries, creators, seen, engineVars>>

\* disconnect_device up to device.disconnect()
disconnect_device(t) ==
    /\ At(t, "idle")
    /\ \E device_id \in DeviceIds : Request(t, "disconnect_device", device_id, local[t])
    /\ UNCHANGED <<discoveries, creators, seen, engineVars>>

\* disconnect_device: device.disconnect().await?; Ok(()), guard dropped
disconnect_device_disconnect(t) ==
    /\ At(t, "d_disconnect")
    /\ \E disconnected \in BOOLEAN :
         Finish(t, call[t].op, call[t].id,
                IF disconnected THEN MOk(Unit)
                ELSE MErr(communication("disconnect failed")))
    /\ lock' = Release(lock, t)
    /\ UNCHANGED <<discoveries, creators, connected_devices, dropped, seen, engineVars>>

\* disconnect_all up to the first device.disconnect(), or to its return when
\* nothing is connected
disconnect_all(t) ==
    /\ At(t, "idle")
    /\ Request(t, "disconnect_all", NoId, local[t])
    /\ UNCHANGED <<discoveries, creators, seen, engineVars>>

\* A plausible slip: `?` on device.disconnect().await instead of the
\* `if let Err(e)` that prints.
LoopStopsOnError(disconnected) == disconnected

\* disconnect_all: after a device's disconnect() the loop goes on, whatever
\* it returned
LoopGoesOn(disconnected) == TRUE

\* disconnect_all: the disconnect() of the turn's device returns (an error is
\* printed); the next turn removes its device and calls its disconnect(),
\* or the loop is over: Ok(()), guard dropped
disconnect_all_step(t) ==
    /\ At(t, "a_loop")
    /\ \E disconnected \in BOOLEAN :
         LET printed == IF disconnected THEN local[t].printed
                        ELSE Append(local[t].printed, local[t].dev.id)
         IN IF ~LoopGoesOn(disconnected)
            THEN /\ lock' = Release(lock, t)
                 /\ Finish(t, call[t].op, call[t].id,
                           MErr(communication("disconnect failed")))
                 /\ UNCHANGED connected_devices
            ELSE IF local[t].ids = <<>>
            THEN /\ lock' = Release(lock, t)
                 /\ Finish(t, call[t].op, call[t].id, MOk(Unit))
                 /\ UNCHANGED connected_devices
            ELSE /\ connected_devices'
                      = MapRemove(connected_devices, Head(local[t].ids))
                 /\ Await(t, call[t].op, call[t].id, "a_loop",
                          [local[t] EXCEPT
                             !.dev = MapGet(connected_devices, Head(local[t].ids)),
                             !.ids = Tail(local[t].ids),
                             !.printed = printed])
                 /\ UNCHANGED lock
    /\ UNCHANGED <<discoveries, creators, dropped, seen, engineVars>>

\* with_device up to the call of f
with_device(t) ==
    /\ At(t, "idle")
    /\ \E device_id \in DeviceIds, r \in OpResults :
         Request(t, "with_device", device_id,
                 [local[t] EXCEPT !.f = OpReturning(r)])
    /\ UNCHANGED <<discoveries, creators, seen, engineVars>>

\* A plausible slip: the closure's error wrapped the way send_ctap_command
\* wraps a transport error.
WithDeviceWrappingError(r) ==
    IF r.ok THEN r ELSE MErr(communication(r.err.kind))

\* with_device: `f(device.as_mut()).await` is the value of the function
WithDeviceValue(r) == r

\* with_device: f(device.as_mut()).await, its value returned, guard dropped
with_device_op(t) ==
    /\ At(t, "w_op")
    /\ Len(local[t].f) > 0
    /\ Finish(t, call[t].op, call[t].id, WithDeviceValue(local[t].f[1]))
    /\ lock' = Release(lock, t)
    /\ UNCHANGED <<discoveries, creators, connected_devices, dropped, seen, engineVars>>

\* TauriDeviceManager::send_raw_command on a device that does not answer:
\* with_device up to the call of f, with the closure that awaits send_raw
send_raw_command(t) ==
    /\ At(t, "idle")
    /\ \E device_id \in DeviceIds :
         Request(t, "with_device", device_id,
                 [local[t] EXCEPT !.f = OpNeverYields])
    /\ UNCHANGED <<discoveries, creators, seen, engineVars>>

\* is_device_connected, device_count, connected_device_ids
status_query(t) ==
    /\ At(t, "idle")
    /\ \E op \in ReadOps, device_id \in DeviceIds :
         Request(t, op, IF op \in IdOps THEN device_id ELSE NoId, local[t])
    /\ UNCHANGED <<discoveries, creators, seen, engineVars>>

NextManager ==
    \/ add_discovery
    \/ register
    \/ Share
    \/ Return
    \/ \E t \in Tasks :
        \/ Wake(t)
        \/ scan_devices(t)
        \/ connect_device(t)
        \/ connect_device_connect(t)
        \/ connect_device_insert(t)
        \/ disconnect_device(t)
        \/ disconnect_device_disconnect(t)
        \/ disconnect_all(t)
        \/ disconnect_all_step(t)
        \/ with_device(t)
        \/ with_device_op(t)
        \/ status_query(t)

SpecManager == Init /\ [][NextManager]_vars

SpecEngine == Init /\ [][NextEngine]_vars

\* one step that carries on a call of caller t already under way: the
\* wake-up of a waiter, or the return of an awaited device call
Continue(t) ==
    \/ Wake(t)
    \/ connect_device_connect(t)
    \/ connect_device_insert(t)
    \/ disconnect_device_disconnect(t)
    \/ disconnect_all_step(t)
    \/ with_device_op(t)

\* what a step of Continue always changes
progress == <<pc, lock, connected_devices>>

\* The runtime polls every task that can run, and every device call the
\* model lets return does return; nobody is obliged to start a call.
Scheduling ==
    /\ WF_returned(Return)
    /\ \A t \in Tasks : SF_progress(Continue(t))

\* the manager with its callers scheduled
SpecManagerFair == Init /\ [][NextManager]_vars /\ Scheduling

\* the manager whose callers also send raw commands to a silent device
NextSilent ==
    \/ NextManager
    \/ \E t \in Tasks : send_raw_command(t)

SpecSilent == Init /\ [][NextSilent]_vars /\ Scheduling

\* the table when the scans begin: nothing connected yet, or "b" connected
\* by an earlier connect_device
TablesAtScan ==
    { EmptyMap, MapInsert(EmptyMap, "b", Device("b", "connected")) }

\* A manager shared by its callers whose sources, registered before, give
\* every scan from now on the same answers.
InitScan ==
    /\ pin_token = None
    /\ pin_protocol_version = None
    /\ timeout = DefaultTimeoutMs
    /\ inflight = Idle
    /\ last = Constructed
    /\ discoveries \in 0..MaxSources
    /\ seen \in { Fixed(outs) : outs \in ScanOutcomes(discoveries) }
    /\ creators = DefaultCreators
    /\ connected_devices \in TablesAtScan
    /\ lock = FreeLock
    /\ dropped = {}
    /\ pc = [t \in Tasks |-> "idle"]
    /\ call = [t \in Tasks |-> NoCall]
    /\ local = [t \in Tasks |-> NoLocal]
    /\ returned = NoCompletion

\* scan_devices, and connect_device up to device.connect()
NextScan ==
    \/ Return
    \/ \E t \in Tasks :
        \/ scan_devices(t)
        \/ connect_device(t)

SpecScan == InitScan /\ [][NextScan]_vars

\* A manager whose sources give the same answers at every scan, one choice
\* of answers for each list (or error) scan_devices can return
InitConnect ==
    /\ pin_token = None
    /\ pin_protocol_version = None
    /\ timeout = DefaultTimeoutMs
    /\ inflight = Idle
    /\ last = Constructed
    /\ discoveries \in 0..MaxSources
    /\ seen \in { Fixed(CHOOSE outs \in ScanOutcomes(discoveries) :
                            ScanDevices(outs) = scanned) :
                    scanned \in ScanResults[discoveries] }
    /\ creators = DefaultCreators
    /\ connected_devices = EmptyMap
    /\ lock = FreeLock
    /\ dropped = {}
    /\ pc = [t \in Tasks |-> "idle"]
    /\ call = [t \in Tasks |-> NoCall]
    /\ local = [t \in Tasks |-> NoLocal]
    /\ returned = NoCompletion

\* connect_device from its scan to its insert
NextConnect ==
    \/ Return
    \/ \E t \in Tasks :
        \/ connect_device(t)
        \/ connect_device_connect(t)
        \/ connect_device_insert(t)

SpecConnect == InitConnect /\ [][NextConnect]_vars

(***************************************************************************)
(* The classification helpers of YKeyError on their own: one error of      *)
(* every kind, every code of a CtapError.                                  *)
(***************************************************************************)
\* the variants of YKeyError but CtapError and Timeout
PlainKinds ==
    {"DeviceNotFound", "UnsupportedDevice", "CommunicationError",
     "UnexpectedResponse", "AuthenticationFailed", "UserCancelled",
     "InvalidPin", "DeviceLocked", "PinRequired", "UserVerificationRequired",
     "CredentialNotFound", "InvalidCredential", "UnsupportedProtocolVersion",
     "InvalidParameters", "PermissionDenied", "DeviceBusy", "IoError",
     "JsonError", "Generic"}

\* the errors the helpers are applied to
Errors ==
    { YErr(kind, 0, "", 0) : kind \in PlainKinds }
        \cup { ctap_error(code) : code \in Byte }
        \cup { timeout_error(AsSecs(ms)) : ms \in Timeouts }

Helpers ==
    {"is_device_locked", "is_pin_required", "is_user_verification_required",
     "is_retryable"}

\* the answer of a helper on an error
Classify(helper, e) ==
    CASE helper = "is_device_locked" -> is_device_locked(e)
      [] helper = "is_pin_required" -> is_pin_required(e)
      [] helper = "is_user_verification_required" ->
            is_user_verification_required(e)
      [] helper = "is_retryable" -> is_retryable(e)

\* an error value in hand: `last` is a call that returned it
InitErrors ==
    /\ pin_token = None
    /\ pin_protocol_version = None
    /\ timeout = DefaultTimeoutMs
    /\ inflight = Idle
    /\ \E e \in Errors :
         last = Returned("error", NoPin, NoPin, <<>>, NotSent, Err(e),
                         None, None)
    /\ discoveries = 0
    /\ seen = NoSeen
    /\ creators = DefaultCreators
    /\ connected_devices = EmptyMap
    /\ lock = FreeLock
    /\ dropped = {}
    /\ pc = [t \in Tasks |-> "idle"]
    /\ call = [t \in Tasks |-> NoCall]
    /\ local = [t \in Tasks |-> NoLocal]
    /\ returned = NoCompletion

\* a helper is called on the error
classify(t) ==
    /\ At(t, "idle")
    /\ \E helper \in Helpers :
         Finish(t, helper, NoId, MOk(Classify(helper, last.result.err)))
    /\ UNCHANGED <<discoveries, creators, connected_devices, lock, dropped,
                   seen, engineVars>>

NextErrors ==
    \/ Return
    \/ \E t \in Tasks : classify(t)

SpecErrors == InitErrors /\ [][NextErrors]_vars

(***************************************************************************)
(* The device factory on its own: create_device over the registries that   *)
(* register can build.                                                     *)
(***************************************************************************)
\* enum DeviceType
DeviceTypes == {"YubiKey", "CanoKey", "Nitrokey", "SoloKey", "Generic"}

\* the creators that can be registered
Creators ==
    {"YubiKeyCreator", "CanoKeyCreator", "GenericFidoCreator", CustomCreator}

\* `Self { creators: HashMap::new() }`
NoCreators == [ty \in {} |-> NoCreator]

\* self.creators.insert(device_type, creator)
Register(registry, device_type, creator) ==
    [ty \in DOMAIN registry \cup {device_type} |->
        IF ty = device_type THEN creator ELSE registry[ty]]

\* the device creator.create(info) returns: MockDevice::new(info.clone())
\* keeps the info it is given
Created(creator, info) == [creator |-> creator, info |-> info]

\* the DeviceInfo values create_device is called with
Infos == { Seen(i, id) : i \in 1..MaxSources, id \in DeviceIds }

\* a factory as DeviceFactory::new starts it, before any register
InitFactory ==
    /\ pin_token = None
    /\ pin_protocol_version = None
    /\ timeout = DefaultTimeoutMs
    /\ inflight = Idle
    /\ last = Constructed
    /\ discoveries = 0
    /\ seen = NoSeen
    /\ creators = NoCreators
    /\ connected_devices = EmptyMap
    /\ lock = FreeLock
    /\ dropped = {}
    /\ pc = [t \in Tasks |-> "idle"]
    /\ call = [t \in Tasks |-> NoCall]
    /\ local = [t \in Tasks |-> NoLocal]
    /\ returned = NoCompletion

\* DeviceFactory::register
factory_register ==
    /\ returned.op = "none"
    /\ \E device_type \in DeviceTypes, creator \in Creators :
         creators' = Register(creators, device_type, creator)
    /\ UNCHANGED <<discoveries, connected_devices, lock, dropped, pc, call,
                   local, returned, seen, engineVars>>

\* DeviceFactory::create_device
create_device(t) ==
    /\ At(t, "idle")
    /\ \E info \in Infos :
         LET creator == CreatorFor(creators, info)
         IN IF creator = NoCreator
            THEN Finish(t, "create_device", info.id,
                        MErr(UnsupportedDevice(info.device_type)))
            ELSE \E created \in CreateOutcomes(creator) :
                   Finish(t, "create_device", info.id,
                          IF created THEN MOk(Created(creator, info))
                          ELSE MErr(communication("create failed")))
    /\ UNCHANGED <<discoveries, creators, connected_devices, lock, dropped,
                   seen, engineVars>>

NextFactory ==
    \/ Return
    \/ factory_register
    \/ \E t \in Tasks : create_device(t)

SpecFactory == InitFactory /\ [][NextFactory]_vars

(***************************************************************************)
(* Properties of the device manager (checked under SpecManager).           *)
(***************************************************************************)
\* the step is the return of a call (its value has not been taken yet)
Returns == returned.op = "none" /\ returned'.op # "none"

\* the step puts a device into the table: an entry that was not there, or
\* one that takes the place of a dropped one
Inserts ==
    \/ dropped' # {}
    \/ \E i \in 1..Len(connected_devices') :
         \A j \in 1..Len(connected_devices) :
           connected_devices[j] # connected_devices'[i]

\* caller t is in connect_device, past its device.connect().await
PastConnect(t) ==
    call[t].op = "connect_device" /\ pc[t] \in {"c_lock", "wait"}

\* C1: connect_device puts a device into the connection table only after
\* the scan, the lookup of the id, the creation of the device and its
\* connect() have all succeeded (the inserted device is the one created for
\* the id of the call, connected, and the call returns Ok); a connect_device
\* that returns an error leaves the table as it was.
C1_ConnectInsertsOnlyAfterSuccess ==
    [][ /\ Inserts =>
             \E t \in Tasks :
               /\ PastConnect(t)
               /\ local[t].dev = Device(call[t].id, "connected")
               /\ connected_devices'
                    = MapInsert(connected_devices, call[t].id, local[t].dev)
               /\ returned' = Completion(t, "connect_device", call[t].id,
                                         MOk(Unit))
        /\ (Returns /\ returned'.op = "connect_device" /\ ~returned'.result.ok)
             => connected_devices' = connected_devices
      ]_vars

\* a connect_device has just failed at connect() and the table, which holds
\* a device, is what it was
C1_Witness ==
    /\ returned.op = "connect_device"
    /\ ~returned.result.ok
    /\ returned.result.err.text = "connect failed"
    /\ connected_devices # EmptyMap

\* C2: the connection table never holds two entries of one id, and
\* device_count() is the number of ids connected_device_ids() returns.
C2_OneEntryPerId ==
    /\ \A i, j \in 1..Len(connected_devices) :
         connected_devices[i].id = connected_devices[j].id => i = j
    /\ DeviceCount(connected_devices)
         = Cardinality(ConnectedDeviceIds(connected_devices))

\* a connect_device has just returned Ok for an id that was connected
\* already: the device that was in the table is gone from it
C2_Witness ==
    /\ returned.op = "connect_device"
    /\ returned.result.ok
    /\ dropped = {Device(returned.id, "connected")}
    /\ DeviceCount(connected_devices) = 2

\* the pcs at which a caller holds a guard of the lock across an await
HoldingPcs == {"w_op", "d_disconnect", "a_loop"}

\* the operations that need a guard of the lock to return
GuardedOps == ReadOps \cup {"disconnect_device", "disconnect_all", "with_device"}

\* C3: while the operation passed to with_device runs, its caller holds the
\* write guard alone: no other with_device runs, and no disconnect, no
\* insert of connect_device and no read of the table completes.
C3_WithDeviceExclusive ==
    [][ \A t \in Tasks :
          pc'[t] = "w_op" =>
            /\ lock'.writer = {t}
            /\ lock'.readers = {}
            /\ \A u \in Tasks \ {t} : pc'[u] \notin HoldingPcs
            /\ pc[t] = "w_op" =>
                 /\ connected_devices' = connected_devices
                 /\ dropped' = {}
                 /\ Returns =>
                      /\ returned'.op \notin GuardedOps
                      /\ returned'.op = "connect_device" => ~returned'.result.ok
      ]_vars

\* the operation of a with_device runs while a status query of another
\* caller waits for the lock
C3_Witness ==
    \E t, u \in Tasks :
      /\ pc[t] = "w_op"
      /\ pc[u] = "wait"
      /\ call[u].op \in ReadOps

(***************************************************************************)
(* Properties of the protocol engine (checked under SpecEngine).           *)
(***************************************************************************)
HighLevelOps ==
    {"get_info", "make_credential", "get_assertion", "get_next_assertion",
     "reset", "set_pin", "change_pin", "verify_pin", "cancel"}

\* the device answered the returned call with at least a status byte
Answered == last.outcome.kind = "reply" /\ last.outcome.data # <<>>

StatusOf(c) == c.outcome.data[1]

\* the bytes after the status byte
PayloadOf(c) == Tail(c.outcome.data)

\* a PIN of 4 to 8 characters
CharsInRange(pin) == CharCount(pin) >= MinPinLen /\ CharCount(pin) <= MaxPinLen

\* C4: after the device answers a verify_pin request with status 0x00 and a
\* token, verify_pin returns that token, the engine holds it
\* (has_pin_token) and the stored token is the returned one, and
\* pin_protocol_version() reports the version used.
C4_VerifyPinStoresToken ==
    (last.op = "verify_pin" /\ Answered /\ StatusOf(last) = 0
        /\ PayloadOf(last) # <<>>)
    => /\ last.result.ok
       /\ last.result.val.token = PayloadOf(last)
       /\ pin_token = Some(PayloadOf(last))
       /\ pin_protocol_version = Some(PinProtocolV1)

\* C5: when the device answers the Reset command with status byte 0x00,
\* reset() returns Ok and afterwards no PIN token and no PIN protocol
\* version is held.
C5_ResetClearsPinState ==
    (last.op = "reset" /\ Answered /\ StatusOf(last) = 0)
    => /\ last.result.ok
       /\ pin_token = None
       /\ pin_protocol_version = None

\* C6: when the device answers the change_pin request with status byte
\* 0x00, change_pin() returns Ok and afterwards no PIN token is held.
C6_ChangePinClearsPinState ==
    (last.op = "change_pin" /\ Answered /\ StatusOf(last) = 0)
    => /\ last.result.ok
       /\ pin_token = None

\* C7: set_pin and change_pin never hand a request to the device when one
\* of the PIN strings passed to them has fewer than 4 or more than 8
\* characters; such a call returns InvalidParameters.
C7_PinLengthRejectedBeforeSend ==
    /\ inflight.op = "set_pin" => CharsInRange(inflight.pin)
    /\ inflight.op = "change_pin" =>
           CharsInRange(inflight.pin) /\ CharsInRange(inflight.old_pin)
    /\ (last.op \in {"set_pin", "change_pin"} /\ last.sent = <<>>) =>
           last.result.err.kind = "InvalidParameters"

\* C8: verify_pin never hands a request to the device for a PIN of fewer
\* than 4 or more than 8 characters.
C8_VerifyPinRejectedBeforeSend ==
    inflight.op = "verify_pin" => CharsInRange(inflight.pin)

\* C9: every high-level call that the device answers with status byte 0x00
\* returns Ok, whatever follows the status byte.
C9_StatusZeroIsSuccess ==
    (last.op \in HighLevelOps /\ Answered /\ StatusOf(last) = 0)
    => last.result.ok

\* C10: every high-level call that the device answers with a non-zero
\* status byte c fails with a CtapError whose code is c, for codes outside
\* the fixed table as well.
C10_NonZeroStatusKeepsCode ==
    (last.op \in HighLevelOps /\ Answered /\ StatusOf(last) # 0)
    => /\ ~last.result.ok
       /\ last.result.err.kind = "CtapError"
       /\ last.result.err.code = StatusOf(last)

\* a call answered with 0xFF, a code the table does not list, has returned
\* the CtapError carrying 0xFF
C10_Witness ==
    /\ last.op = "verify_pin"
    /\ Answered
    /\ StatusOf(last) = 255
    /\ StatusOf(last) \notin DOMAIN CtapMessageTable
    /\ last.result.err.kind = "CtapError"
    /\ last.result.err.code = 255

\* a call of the engine that returned an error
Failed == last.op \in HighLevelOps /\ ~last.result.ok

\* C11: whenever an operation of the engine fails, the PIN token and the
\* PIN protocol version are what they were before the call; a failing reset
\* or change_pin does not clear a held token.
C11_FailureKeepsPinState ==
    Failed =>
        /\ pin_token = last.pre_token
        /\ pin_protocol_version = last.pre_version

\* a reset the device answered with an error status has returned, and the
\* token held before the call is still held
C11_Witness ==
    /\ last.op = "reset"
    /\ Answered
    /\ StatusOf(last) # 0
    /\ ~last.result.ok
    /\ pin_token = Some(TestToken)
    /\ pin_protocol_version = Some(PinProtocolV1)

(***************************************************************************)
(* Properties of scan_devices and of the first stage of connect_device     *)
(* (checked under SpecScan, where the answers of the sources are in seen). *)
(***************************************************************************)
\* every source answered its scan() with a list
AllSourcesAnswer == \A i \in 1..Len(seen.outs) : seen.outs[i].ok

\* the entries the sources returned
SourceEntries ==
    UNION { { seen.outs[i].list[k] : k \in 1..Len(seen.outs[i].list) } :
              i \in 1..Len(seen.outs) }

\* C12: when every source returns a list, scan_devices returns a list with
\* exactly one entry for each id some source returned (none missing, none
\* twice), and each entry it returns is an entry some source returned.
C12_ScanOneEntryPerId ==
    (returned.op = "scan_devices" /\ AllSourcesAnswer) =>
        /\ returned.result.ok
        /\ LET out == returned.result.val.devices
           IN /\ { out[k].id : k \in 1..Len(out) }
                    = { e.id : e \in SourceEntries }
              /\ \A j, k \in 1..Len(out) : out[j].id = out[k].id => j = k
              /\ \A k \in 1..Len(out) : out[k] \in SourceEntries

\* a scan has returned two entries where two sources reported the same id
\* with different content and another id lay between them
C12_Witness ==
    /\ returned.op = "scan_devices"
    /\ AllSourcesAnswer
    /\ Len(seen.outs) = 2
    /\ seen.outs[1].list = <<Seen(1, "a"), Seen(1, "b")>>
    /\ seen.outs[2].list = <<Seen(2, "a")>>
    /\ Len(returned.result.val.devices) = 2

\* the value r is Ok(v)
IsOk(r, v) == r.ok /\ r.val = v

\* the value r is Err(e)
IsErr(r, e) == ~r.ok /\ r.err = e

\* two values of one operation are the same
SameResult(r, s) == r.ok = s.ok /\ r.err = s.err /\ r.val = s.val


(***************************************************************************)
(* More properties of the device manager (checked under SpecManager).      *)
(***************************************************************************)
\* the step is the return of op to caller t
ReturnsTo(t, op) == Returns /\ returned'.task = t /\ returned'.op = op

\* C13: disconnect_device(id) for an id that is not in the connection
\* table returns Ok, calls disconnect() on no device and leaves the table
\* as it was (so that repeating the call changes nothing either): it goes on
\* to device.disconnect() only for an id that was in the table, and a call
\* that returns without having gone there found the id absent, returns Ok
\* and changes nothing.
C13_DisconnectAbsentIsNoOp ==
    [][ \A t \in Tasks :
          /\ (pc[t] # "d_disconnect" /\ pc'[t] = "d_disconnect") =>
                MapHas(connected_devices, call'[t].id)
          /\ (ReturnsTo(t, "disconnect_device") /\ pc[t] # "d_disconnect") =>
                /\ ~MapHas(connected_devices, returned'.id)
                /\ IsOk(returned'.result, Unit)
                /\ connected_devices' = connected_devices
                /\ dropped' = dropped
                /\ lock'.writer = lock.writer
      ]_vars

\* disconnect_device("a") has returned Ok with "a" not connected while "b"
\* is connected
C13_Witness ==
    /\ returned.op = "disconnect_device"
    /\ returned.id = "a"
    /\ IsOk(returned.result, Unit)
    /\ ~MapHas(connected_devices, "a")
    /\ MapHas(connected_devices, "b")

\* the ids disconnect_all of caller t has yet to handle
Remaining(loc) == { loc.ids[i] : i \in 1..Len(loc.ids) }

\* C14: disconnect_all calls disconnect() on every device that is in the
\* table when it starts (the first is taken out and disconnected as the loop
\* is entered, every other one in a later turn, and the table holds exactly
\* the devices whose turn is still to come), goes on to the next device
\* whatever a disconnect() returned, and ends only when none is left: it
\* then returns Ok(()) with an empty table (device_count() = 0).
C14_DisconnectAllEmptiesTable ==
    [][ \A t \in Tasks :
          /\ (pc[t] # "a_loop" /\ pc'[t] = "a_loop") =>
                /\ ConnectedDeviceIds(connected_devices)
                     = {local'[t].dev.id} \cup Remaining(local'[t])
                /\ local'[t].dev = MapGet(connected_devices, local'[t].dev.id)
                /\ local'[t].printed = <<>>
          /\ (pc[t] = "a_loop" /\ pc'[t] = "a_loop" /\ local'[t] # local[t]) =>
                /\ local[t].ids # <<>>
                /\ local'[t].ids = Tail(local[t].ids)
                /\ local'[t].dev = MapGet(connected_devices, Head(local[t].ids))
                /\ connected_devices'
                     = MapRemove(connected_devices, Head(local[t].ids))
          /\ pc'[t] = "a_loop" =>
                /\ ConnectedDeviceIds(connected_devices') = Remaining(local'[t])
                /\ Cardinality(Remaining(local'[t])) = Len(local'[t].ids)
                /\ local'[t].dev.id \notin Remaining(local'[t])
          /\ (pc[t] = "a_loop" /\ pc'[t] # "a_loop") =>
                /\ local[t].ids = <<>>
                /\ ReturnsTo(t, "disconnect_all")
          /\ ReturnsTo(t, "disconnect_all") =>
                /\ IsOk(returned'.result, Unit)
                /\ connected_devices' = EmptyMap
                /\ DeviceCount(connected_devices') = 0
      ]_vars

\* disconnect_all found "a" and "b" connected; the disconnect() of "a" failed
\* and was printed, and the loop went on: "b" is out of the table and its
\* disconnect() is under way
C14_Witness ==
    \E t \in Tasks :
       /\ pc[t] = "a_loop"
       /\ call[t].op = "disconnect_all"
       /\ local[t].printed = <<"a">>
       /\ local[t].dev.id = "b"
       /\ local[t].ids = <<>>
       /\ connected_devices = EmptyMap

\* C15: with_device(id, f) calls f only for an id that is in the table, on
\* the device stored under that id; a call that returns without having
\* called f found the id absent and returns DeviceNotFound(id); a call that
\* called f leaves it only by returning, with the very value f gave; and no
\* step of with_device, nor any step taken while f runs, changes the set of
\* ids in the table.
C15_WithDeviceRunsOpOnce ==
    [][ \A t \in Tasks :
          /\ (pc[t] # "w_op" /\ pc'[t] = "w_op") =>
                /\ call'[t].op = "with_device"
                /\ MapHas(connected_devices, call'[t].id)
                /\ local'[t].dev = MapGet(connected_devices, call'[t].id)
                /\ local'[t].f # NoOp
          /\ (ReturnsTo(t, "with_device") /\ pc[t] # "w_op") =>
                /\ ~MapHas(connected_devices, returned'.id)
                /\ IsErr(returned'.result, DeviceNotFound(returned'.id))
          /\ (pc[t] = "w_op" /\ pc'[t] # "w_op") =>
                /\ ReturnsTo(t, "with_device")
                /\ returned'.id = call[t].id
                /\ SameResult(returned'.result, local[t].f[1])
          /\ pc[t] = "w_op" =>
                /\ local'[t].f = local[t].f \/ pc'[t] # "w_op"
                /\ connected_devices' = connected_devices
          /\ (\/ ReturnsTo(t, "with_device")
              \/ pc'[t] # pc[t] /\ call'[t].op = "with_device") =>
                ConnectedDeviceIds(connected_devices')
                  = ConnectedDeviceIds(connected_devices)
      ]_vars

\* with_device("a", f) has returned the error of f while "a" is connected
C15_Witness ==
    /\ returned.op = "with_device"
    /\ returned.id = "a"
    /\ MapHas(connected_devices, "a")
    /\ IsErr(returned.result, communication("op failed"))

\* the ids in the list the scan of a connect_device call gives (none when the
\* scan fails); the sources answer the same at every scan
ScannedIds ==
    LET scanned == ScanDevices(seen.outs)
    IN IF scanned.ok THEN { scanned.val[k].id : k \in 1..Len(scanned.val) }
       ELSE {}

\* C16: a connect_device(id) whose scan gives a list without id returns
\* DeviceNotFound(id) straight from the scan, with no device created, none
\* connected, and the table as it was; a device is created only for an id
\* the scan lists, so the table holds such ids only; and with no discovery
\* source every connect_device is DeviceNotFound.
C16_ConnectAbsentIsNotFound ==
    [][ \A t \in Tasks :
          /\ ( /\ ReturnsTo(t, "connect_device")
               /\ ScanDevices(seen.outs).ok
               /\ returned'.id \notin ScannedIds ) =>
                /\ IsErr(returned'.result, DeviceNotFound(returned'.id))
                /\ pc[t] = "idle"
                /\ local[t].dev = NoDevice
                /\ connected_devices' = connected_devices
                /\ dropped' = dropped
          /\ (pc[t] = "idle" /\ pc'[t] # "idle") =>
                /\ call'[t].id \in ScannedIds
                /\ local'[t].dev = NewDevice(call'[t].id)
          /\ ConnectedDeviceIds(connected_devices') \subseteq ScannedIds
          /\ (ReturnsTo(t, "connect_device") /\ discoveries = 0) =>
                IsErr(returned'.result, DeviceNotFound(returned'.id))
      ]_vars

\* connect_device("a") has returned DeviceNotFound("a") from sources that
\* list "b" only, with "b" connected
C16_Witness ==
    /\ returned.op = "connect_device"
    /\ returned.id = "a"
    /\ IsErr(returned.result, DeviceNotFound("a"))
    /\ discoveries > 0
    /\ ScannedIds = {"b"}
    /\ MapHas(connected_devices, "b")

\* C17: a connect_device(id) that succeeds leaves exactly one entry for id,
\* and when id was connected already (no disconnect since the connect that
\* stored it) the stored device stays: nothing is put out of the table.
C17_SecondConnectKeepsDevice ==
    [][ \A t \in Tasks :
          (ReturnsTo(t, "connect_device") /\ returned'.result.ok) =>
              /\ Cardinality({ i \in 1..Len(connected_devices') :
                                 connected_devices'[i].id = returned'.id }) = 1
              /\ MapHas(connected_devices, returned'.id) =>
                    /\ dropped' = {}
                    /\ connected_devices' = connected_devices
      ]_vars

(***************************************************************************)
(* Timeouts, transport failures and retries of the engine.                 *)
(***************************************************************************)
\* the returned call is one the device did not answer in time
TimedOut == last.op \in HighLevelOps /\ last.outcome.kind = "hang"

\* C18: a call the device does not answer within the configured timeout
\* fails with Timeout{seconds} whose seconds are the configured timeout (kept
\* in milliseconds here), the engine is idle again, the PIN token and
\* protocol version are those held before the call, and the connection
\* table is as it was.
C18_TimeoutCarriesConfigured ==
    TimedOut =>
        /\ ~last.result.ok
        /\ last.result.err.kind = "Timeout"
        /\ last.result.err.seconds * 1000 = timeout
        /\ inflight = Idle
        /\ pin_token = last.pre_token
        /\ pin_protocol_version = last.pre_version
        /\ connected_devices = EmptyMap

\* the returned call is one whose send_raw returned an error
TransportFailed == last.op \in HighLevelOps /\ last.outcome.kind = "fail"

\* C19: when send_raw returns an error e, the call returns e itself, kind
\* and content, so that is_retryable answers on the returned error as it
\* does on e.
C19_TransportErrorUnchanged ==
    TransportFailed =>
        /\ ~last.result.ok
        /\ last.result.err = last.outcome.err
        /\ is_retryable(last.result.err) = is_retryable(last.outcome.err)

\* C20: a call in flight has called send_raw once; a call that has returned
\* called it at most once: once when the device answered (a retryable
\* status such as 0x06 or 0x16 included), failed or did not answer in time,
\* and not at all when the call failed its validation.
C20_NoSilentRetry ==
    /\ inflight # Idle => Len(inflight.sent) = 1
    /\ last.op \in HighLevelOps =>
          /\ Len(last.sent) <= 1
          /\ last.outcome.kind \in {"reply", "fail", "hang"} =>
                Len(last.sent) = 1
          /\ (~last.result.ok /\ last.result.err.kind = "InvalidParameters") =>
                /\ last.outcome = NotSent
                /\ last.sent = <<>>

\* a call the device answered with channel busy (0x06) has returned its
\* error after a single send_raw
C20_Witness ==
    /\ last.op \in HighLevelOps
    /\ Answered
    /\ StatusOf(last) = 6
    /\ ~last.result.ok
    /\ is_retryable(last.result.err)
    /\ Len(last.sent) = 1

(***************************************************************************)
(* The lock of the table and the operations on devices.                    *)
(***************************************************************************)
\* the step is one of caller u on a device: device.connect() of
\* connect_device called or returning, or a step of disconnect_device,
\* disconnect_all or with_device at a device
DeviceStep(u) ==
    \/ pc[u] # "c_connect" /\ pc'[u] = "c_connect"
    \/ pc[u] = "c_connect" /\ pc'[u] # "c_connect"
    \/ pc[u] \notin HoldingPcs /\ pc'[u] \in HoldingPcs
    \/ pc[u] \in HoldingPcs /\ (pc'[u] # pc[u] \/ local'[u] # local[u])

\* C21: while the operation of a with_device runs, no other caller takes a
\* step on a device: no device.connect() of connect_device, no
\* disconnect_device, no disconnect_all, no other with_device.
C21_WithDeviceSerializesAll ==
    [][ \A t \in Tasks : \A u \in Tasks \ {t} :
          pc[t] = "w_op" => ~DeviceStep(u)
      ]_vars

\* the callers that hold a guard of the lock across an await
Holders == { t \in Tasks : pc[t] \in HoldingPcs }

\* C22: a status query returns only when no disconnect_device,
\* disconnect_all or with_device is under way (none holds the write guard),
\* and what it returns is read from the table as it stands then: the table
\* before or after a mutation, never the table a disconnect_all has emptied
\* in part.  At most one caller is inside a write-locked operation, it is
\* the holder of the write guard, and while there is one no other caller
\* changes the table.
C22_MutationsAtomicForReaders ==
    [][ /\ \A u \in Tasks :
             (Returns /\ returned'.task = u /\ returned'.op \in ReadOps) =>
                /\ Holders = {}
                /\ lock.writer = {}
                /\ connected_devices' = connected_devices
                /\ returned'.result.ok
                /\ returned'.result.val = StatusValue(returned'.op, returned'.id)
        /\ Cardinality(Holders) <= 1
        /\ Holders \subseteq lock.writer
        /\ \A t \in Holders :
             connected_devices' # connected_devices =>
                (pc'[t] # pc[t] \/ local'[t] # local[t])
      ]_vars

\* a device_count waits for the lock while a disconnect_all has taken one of
\* two devices out of the table
C22_Witness ==
    \E t, u \in Tasks :
      /\ pc[t] = "a_loop"
      /\ local[t].ids # <<>>
      /\ DeviceCount(connected_devices) = 1
      /\ pc[u] = "wait"
      /\ call[u].op = "device_count"

\* C23: a scan_devices returns only when no write-locked operation is under
\* way, and a connect_device holds the write guard through all of its
\* steps: while its device.connect() runs and when it comes to its insert
\* the caller is the writer, and no other caller is inside a write-locked
\* operation.
C23_ScanAndConnectLocked ==
    [][ \A t \in Tasks :
          /\ ReturnsTo(t, "scan_devices") =>
                /\ Holders = {}
                /\ lock.writer = {}
          /\ pc'[t] \in {"c_connect", "c_lock"} =>
                /\ lock'.writer = {t}
                /\ \A u \in Tasks \ {t} : pc'[u] \notin HoldingPcs
      ]_vars

(***************************************************************************)
(* The PIN token over a sequence of calls.                                 *)
(***************************************************************************)
\* the step is the return of a verify_pin the device answered with status
\* 0x00 and a token
VerifyPinAnswered ==
    /\ inflight.op = "verify_pin"
    /\ last'.op = "verify_pin"
    /\ last'.outcome.kind = "reply"
    /\ last'.outcome.data # <<>>
    /\ StatusOf(last') = 0
    /\ PayloadOf(last') # <<>>

\* C24: the engine holds at most one token; a held token goes away only
\* with a successful reset, a successful change_pin or clear_pin_token; a
\* token comes to be held only with a verify_pin that succeeds (or the
\* direct write of the module's own test); and a verify_pin the device
\* answers with a token leaves that token held, in place of any held before.
C24_TokenLifecycle ==
    [][ /\ Len(pin_token') <= 1
        /\ (pin_token' # pin_token /\ pin_token' = None) =>
              /\ last'.op \in {"reset", "change_pin", "clear_pin_token"}
              /\ last'.result.ok
        /\ (pin_token' # pin_token /\ pin_token' # None) =>
              /\ last'.op \in {"verify_pin", "store_pin_token"}
              /\ last'.result.ok
        /\ VerifyPinAnswered =>
              /\ last'.result.ok
              /\ pin_token' = Some(PayloadOf(last'))
      ]_vars

(***************************************************************************)
(* Properties of the device factory (checked under SpecFactory).           *)
(***************************************************************************)
\* the returned create_device used creator c: the device is c's, made from
\* the info of the call, or the call failed with c's error
UsedCreator(c) ==
    IF returned.result.ok
    THEN /\ returned.result.val.creator = c
         /\ returned.result.val.info.id = returned.id
         /\ returned.result.val.info.device_type = DeviceTypeOf(returned.id)
    ELSE /\ c = CustomCreator
         /\ returned.result.err = communication("create failed")

\* C25: create_device(info) uses the creator registered for
\* info.device_type when there is one; with none, the creator registered
\* for Generic, and the device still reports the device type of info; with
\* neither, it fails with UnsupportedDevice(info.device_type).
C25_CreatorOfTypeElseGeneric ==
    returned.op = "create_device" =>
        LET device_type == DeviceTypeOf(returned.id)
        IN IF device_type \in DOMAIN creators
           THEN UsedCreator(creators[device_type])
           ELSE IF "Generic" \in DOMAIN creators
           THEN UsedCreator(creators["Generic"])
           ELSE IsErr(returned.result, UnsupportedDevice(device_type))

\* a Nitrokey device has been created by the creator of Generic in a
\* factory that has creators for YubiKey, CanoKey and Generic only
C25_Witness ==
    /\ returned.op = "create_device"
    /\ creators = DefaultCreators
    /\ returned.result.ok
    /\ returned.result.val.creator = "GenericFidoCreator"
    /\ returned.result.val.info.device_type = "Nitrokey"

\* the creators registered in the factory
Registered == { creators[ty] : ty \in DOMAIN creators }

\* C26: the creator create_device uses for a device supports it
\* (supports(info) is true), and no registered creator that supports the
\* device has a higher priority().
C26_HighestPrioritySupporter ==
    (returned.op = "create_device" /\ returned.result.ok) =>
        LET used == returned.result.val.creator
            info == returned.result.val.info
        IN /\ Supports(used, info)
           /\ \A other \in Registered :
                Supports(other, info) => Priority(other) <= Priority(used)

(***************************************************************************)
(* More properties of scan_devices (checked under SpecScan).               *)
(***************************************************************************)
\* the ways of registering the n sources in another order
Reorderings(n) ==
    { p \in [1..n -> 1..n] : \A i, j \in 1..n : p[i] = p[j] => i = j }

\* the answers of the sources when they are registered in the order p
Reordered(outs, p) == [i \in 1..Len(outs) |-> outs[p[i]]]

\* C27: when every source returns a list, the list scan_devices returns is
\* the list it returns with the same sources registered in any other
\* order, entry for entry, content included.
C27_ScanIgnoresSourceOrder ==
    (returned.op = "scan_devices" /\ AllSourcesAnswer) =>
        \A p \in Reorderings(Len(seen.outs)) :
            LET other == ScanDevices(Reordered(seen.outs, p))
            IN /\ other.ok
               /\ returned.result.ok
               /\ other.val = returned.result.val.devices

\* C28: the list scan_devices returns is in strictly ascending order of
\* the ids: each entry's id comes before the id of the entry after it.
C28_ScanSortedAscending ==
    (returned.op = "scan_devices" /\ returned.result.ok) =>
        LET out == returned.result.val.devices
        IN \A k \in 1..(Len(out) - 1) :
             IdRank(out[k].id) < IdRank(out[k + 1].id)

\* a scan has returned "a" before "b" where the first source reported "b"
\* before "a" and the second reported "a" again
C28_Witness ==
    /\ returned.op = "scan_devices"
    /\ returned.result.ok
    /\ Len(seen.outs) = 2
    /\ seen.outs[1].ok /\ seen.outs[2].ok
    /\ seen.outs[1].list = <<Seen(1, "b"), Seen(1, "a")>>
    /\ seen.outs[2].list = <<Seen(2, "a")>>
    /\ returned.result.val.devices = <<Seen(1, "a"), Seen(1, "b")>>

(***************************************************************************)
(* Properties of the classification helpers (checked under SpecErrors).    *)
(***************************************************************************)
\* C29: is_retryable answers true exactly on DeviceBusy, Timeout,
\* CommunicationError and a CtapError with code 0x06 (channel busy) or 0x16
\* (processing), and false on every other kind and every other code.
C29_RetryableExactly ==
    returned.op = "is_retryable" =>
        LET e == last.result.err
        IN returned.result.val
             = ( \/ e.kind = "DeviceBusy"
                 \/ e.kind = "Timeout"
                 \/ e.kind = "CommunicationError"
                 \/ e.kind = "CtapError" /\ e.code = 6
                 \/ e.kind = "CtapError" /\ e.code = 22 )

\* is_retryable has answered true on the CtapError of code 0x16
C29_Witness ==
    /\ returned.op = "is_retryable"
    /\ last.result.err = ctap_error(22)
    /\ returned.result.val = TRUE

(***************************************************************************)
(* The classification of the errors the engine returns (SpecEngine).       *)
(***************************************************************************)
\* C30: a get_info the device answers with first byte 0x2A fails with an
\* error on which is_pin_required is true and is_device_locked is false;
\* one answered with first byte 0x26 fails with an error on which
\* is_device_locked is true.
C30_StatusClassified ==
    (last.op = "get_info" /\ Answered) =>
        /\ StatusOf(last) = 42 =>
              /\ ~last.result.ok
              /\ is_pin_required(last.result.err)
              /\ ~is_device_locked(last.result.err)
        /\ StatusOf(last) = 38 =>
              /\ ~last.result.ok
              /\ is_device_locked(last.result.err)

\* a get_info answered with the single byte 0x2A has failed with the
\* CtapError of that code
C30_Witness ==
    /\ last.op = "get_info"
    /\ Answered
    /\ last.outcome.data = <<42>>
    /\ ~last.result.ok
    /\ last.result.err = ctap_error(42)
    /\ is_pin_required(last.result.err)

(***************************************************************************)
(* Suspension points and the configured timeout.                           *)
(***************************************************************************)
\* caller t is inside a call: waiting for the lock or for a device
Suspended(t) == pc[t] \notin {"setup", "idle"}

\* C31: every call of with_device eventually returns, and so does every
\* call waiting for the table lock behind it, although the device never
\* answers send_raw: the wait would be cut short by the configured timeout.
C31_SuspensionBoundedByTimeout ==
    \A t \in Tasks : Suspended(t) ~> (pc[t] = "idle")

(***************************************************************************)
(* More properties of the protocol engine (checked under SpecEngine).      *)
(***************************************************************************)
\* C32: a cancel() the device answers leaves the engine Idle with the
\* outcome the device's answer decides: Ok when the status byte reports
\* success, the CtapError of that status when it reports a cancel status or
\* any other.
C32_CancelOutcomeFromDevice ==
    (last.op = "cancel" /\ Answered) =>
        /\ inflight = Idle
        /\ StatusOf(last) = 0 => last.result.ok
        /\ StatusOf(last) # 0 =>
              /\ ~last.result.ok
              /\ last.result.err.kind = "CtapError"
              /\ last.result.err.code = StatusOf(last)

\* C33: set_pin and change_pin never answer InvalidParameters when every PIN
\* passed to them has 4 to 8 characters, multi-byte characters included:
\* such a call sends its request.
C33_PinInRangeAccepted ==
    (last.op \in {"set_pin", "change_pin"} /\ ~last.result.ok
        /\ last.result.err.kind = "InvalidParameters")
    => ~( /\ CharsInRange(last.pin)
          /\ last.op = "change_pin" => CharsInRange(last.old_pin) )

\* C34: the engine holds a PIN token if and only if it holds a PIN protocol
\* version (has_pin_token() = pin_protocol_version().is_some()), in every
\* state.
C34_TokenIffVersion ==
    (pin_token = None) <=> (pin_protocol_version = None)

\* clear_pin_token has returned on an engine that held a token and a
\* version, and holds neither now
C34_Witness ==
    /\ last.op = "clear_pin_token"
    /\ last.pre_token = Some(TestToken)
    /\ last.pre_version = Some(PinProtocolV1)
    /\ pin_token = None
    /\ pin_protocol_version = None

\* the calls that have no business with the PIN state
FrameOps ==
    {"get_info", "make_credential", "get_assertion", "get_next_assertion",
     "cancel", "set_pin", "set_timeout"}

\* C35: get_info, make_credential, get_assertion, get_next_assertion,
\* cancel, set_pin and set_timeout leave the PIN token and the PIN protocol
\* version as they were, when they send, when they are rejected and when
\* they return, whatever the device answers; and the request of
\* make_credential and of get_assertion is the command byte alone, with or
\* without a token held.
C35_FrameOpsKeepPinState ==
    [][ /\ (inflight'.op \in FrameOps \/ last'.op \in FrameOps) =>
              /\ pin_token' = pin_token
              /\ pin_protocol_version' = pin_protocol_version
        /\ inflight'.op = "make_credential" => inflight'.sent = << <<1>> >>
        /\ inflight'.op = "get_assertion" => inflight'.sent = << <<2>> >>
      ]_vars

\* a make_credential sent while a token was held has been answered with an
\* error status, and the token and the version are still held
C35_Witness ==
    /\ last.op = "make_credential"
    /\ Answered
    /\ StatusOf(last) # 0
    /\ last.sent = << <<1>> >>
    /\ last.pre_token = Some(TestToken)
    /\ pin_token = Some(TestToken)
    /\ pin_protocol_version = Some(PinProtocolV1)

(***************************************************************************)
(* Devices that leave the connection table (checked under SpecManager).    *)
(***************************************************************************)
\* C36: a step that takes a device out of the connection table is the step
\* of a caller that goes on to call disconnect() on that device, and no
\* step drops a device that was in the table without disconnect() having
\* been called on it, the insert of connect_device under an id already
\* present included.
C36_LeavingDeviceIsDisconnected ==
    [][ /\ \A i \in 1..Len(connected_devices) :
             ~MapHas(connected_devices', connected_devices[i].id) =>
                \E t \in Tasks :
                    /\ pc'[t] \in {"d_disconnect", "a_loop"}
                    /\ local'[t].dev = connected_devices[i].dev
        /\ dropped' = {}
      ]_vars

\* C37: disconnect_device(id) on a present id takes the entry out of the
\* table before it calls the device's disconnect(); when disconnect()
\* fails the call returns that error and id is not in the table; and a
\* with_device(id) that finds no entry for id returns DeviceNotFound(id).
C37_DisconnectRemovesFirst ==
    [][ \A t \in Tasks :
          /\ (pc'[t] = "d_disconnect" /\ pc[t] # "d_disconnect") =>
                /\ MapHas(connected_devices, call'[t].id)
                /\ ~MapHas(connected_devices', call'[t].id)
          /\ (ReturnsTo(t, "disconnect_device") /\ pc[t] = "d_disconnect"
                /\ ~returned'.result.ok) =>
                /\ IsErr(returned'.result, communication("disconnect failed"))
                /\ ~MapHas(connected_devices', returned'.id)
          /\ (ReturnsTo(t, "with_device")
                /\ ~MapHas(connected_devices, returned'.id)) =>
                IsErr(returned'.result, DeviceNotFound(returned'.id))
      ]_vars

\* a disconnect_device("a") whose disconnect() failed has returned the
\* error, "a" is out of the table and "b" is still in it
C37_Witness ==
    /\ returned.op = "disconnect_device"
    /\ returned.id = "a"
    /\ IsErr(returned.result, communication("disconnect failed"))
    /\ ~MapHas(connected_devices, "a")
    /\ MapHas(connected_devices, "b")

\* the devices of id on which connect() has succeeded and disconnect() has
\* not been called: the one in the table, and the ones the callers of
\* connect_device hold on their way to the insert
LiveSessions(id) ==
    Cardinality({ i \in 1..Len(connected_devices) : connected_devices[i].id = id })
      + Cardinality({ t \in Tasks : /\ call[t].op = "connect_device"
                                    /\ local[t].dev = Device(id, "connected") })

\* C38: for every device id there is at most one Device on which connect()
\* has succeeded and disconnect() has not been called since, whether the
\* connect_device calls for the id come one after the other or together.
C38_OneLiveSessionPerId ==
    \A id \in DeviceIds : LiveSessions(id) <= 1

(***************************************************************************)
(* Termination of the manager's operations (checked under                  *)
(* SpecManagerFair: every scan and every device call returns, every        *)
(* runnable caller runs).                                                  *)
(***************************************************************************)
\* C39: every operation of the manager that a caller has started, and that
\* waits for the table lock or for a device, eventually returns to that
\* caller, whatever the other callers do meanwhile: no interleaving blocks
\* for ever and no waiter is passed over for ever.
C39_EveryOperationReturns ==
    \A t \in Tasks :
        \A op \in WriteOps \cup ReadOps :
            (call[t].op = op) ~> (returned.task = t /\ returned.op = op)

\* a connect_device waits for the lock while a disconnect_all, which has
\* taken one of two devices out of the table, awaits its disconnect()
C39_Witness ==
    \E t, u \in Tasks :
        /\ pc[t] = "a_loop"
        /\ Len(local[t].ids) = 1
        /\ pc[u] = "wait"
        /\ call[u].op = "connect_device"
        /\ lock.queue = <<u>>

(***************************************************************************)
(* Failing discovery sources (checked under SpecScan).                     *)
(***************************************************************************)
\* the first registered source whose scan() fails
FirstFailed ==
    CHOOSE i \in 1..Len(seen.outs) :
        ~seen.outs[i].ok /\ \A j \in 1..(i - 1) : seen.outs[j].ok

\* C40: when the scan() of some registered source fails, scan_devices
\* returns the error of the first source that fails and no list, whatever
\* the sources before it reported and whatever the sources after it would
\* answer; and a connect_device returns that same error in its first step,
\* for an id a healthy source reported as well, and leaves the connection
\* table and its lock as they were.
C40_ScanAllOrNothing ==
    [][ \A t \in Tasks :
          ((ReturnsTo(t, "scan_devices") \/ ReturnsTo(t, "connect_device"))
              /\ ~AllSourcesAnswer) =>
                /\ IsErr(returned'.result, ScanFailure(FirstFailed))
                /\ returned'.result.val = NoValue
                /\ pc[t] = "idle"
                /\ connected_devices' = connected_devices
                /\ lock' = lock
      ]_vars

\* connect_device("a") has returned the error of the second source, the
\* first source having reported "a", and "b" is still the one device
\* connected
C40_Witness ==
    /\ returned.op = "connect_device"
    /\ returned.id = "a"
    /\ Len(seen.outs) = 2
    /\ seen.outs[1].ok
    /\ seen.outs[1].list = <<Seen(1, "a")>>
    /\ ~seen.outs[2].ok
    /\ IsErr(returned.result, ScanFailure(2))
    /\ ConnectedDeviceIds(connected_devices) = {"b"}

=============================================================================
